---- MODULE Spec2Model ----
(***************************************************************************)
(* Model of the agent scheduler (package scheduler, models).               *)
(*                                                                         *)
(* GenerateSchedule decomposes every CallData record into per-hour         *)
(* CustomerRequirement entries (24 buckets, labelled by the local clock    *)
(* hour), then, when capacityPerHour > 0, runs allocateWithConstraints on  *)
(* every bucket and collects the UnmetDemand records.                      *)
(*                                                                         *)
(* Instants are integer minutes on the UTC time line.  A location is a     *)
(* zone with at most one offset transition (a DST change).  Floating point *)
(* quantities of the source (hours, calls per hour) are kept as exact      *)
(* rationals; the inputs on which double precision rounding moves a        *)
(* product across an integer, and with it math.Ceil, are listed.           *)
(***************************************************************************)
EXTENDS Integers, Sequences, FiniteSets, TLC

VARIABLES
    data,             \* []models.CallData handed to GenerateSchedule
    utilization,      \* utilization argument, a rational <<num, den>>
    capacityPerHour,  \* capacityPerHour argument
    hourlyRequests,   \* hourlyRequests / schedule.HourlyRequirements (same backing array)
    UnmetDemands,     \* schedule.UnmetDemands
    pc,               \* position in GenerateSchedule
    i,                \* index of the record the decomposition loop is at (1-based)
    h,                \* index of the hour the allocation loop is at
    arch,             \* the architecture the program was built for
    previous,         \* the Schedule an earlier call returned, <<>> before any
    input,            \* the CSV records that reader.Read hands to Parse, in order
    lineNum,          \* lineNum of Parse
    currentLoc,       \* loc of Parse: the time zone in force
    err,              \* the error Parse returns, <<>> for nil
    gauges,           \* the gauges of package metrics
    compared,         \* what the two versions of allocateWithConstraints returned, <<>> before
    formatted         \* the ScheduleData the formatter prepared, <<>> before

vars == <<data, utilization, capacityPerHour, hourlyRequests, UnmetDemands, pc, i, h,
          arch, previous, input, lineNum, currentLoc, err, gauges, compared, formatted>>

\* the state of Parse
parserVars == <<input, lineNum, currentLoc, err>>

\* what the collaborators of GenerateSchedule produce
outputVars == <<gauges, compared, formatted>>

(***************************************************************************)
(* Bounds of the model and program constants                               *)
(***************************************************************************)
MaxRecords == 2

HoursPerDay == 24

MinutesPerHour == 60

SecondsPerHour == 3600

MinutesPerDay == 1440

(***************************************************************************)
(* Locations: offset (minutes east of UTC) before and after one transition *)
(***************************************************************************)
UTC == [name |-> "UTC", before |-> 0, after |-> 0, at |-> 0]

\* America/New_York on a fall-back day: EDT (-4h) until 06:00 UTC, then EST (-5h)
NewYorkFallBack ==
    [name |-> "America/New_York", before |-> -240, after |-> -300, at |-> 360]

Locations == {UTC, NewYorkFallBack}

\* America/New_York on a spring-forward day: EST (-5h) until 07:00 UTC, then EDT (-4h)
NewYorkSpringForward ==
    [name |-> "America/New_York", before |-> -300, after |-> -240, at |-> 420]

\* mutant of Offset: the transition is ignored
OffsetBeforeTransition(loc, t) == loc.before

\* Location.lookup: the offset in force at instant t
Offset(loc, t) == IF t < loc.at THEN loc.before ELSE loc.after

\* mutant of Wall: the offset after the transition is in force all day
WallAfterTransition(loc, t) == t + loc.after

\* the wall clock (minutes) that instant t reads in loc
Wall(loc, t) == t + Offset(loc, t)

\* mutant of Hour: the hour is read on the UTC clock
HourOfUTC(loc, t) == (t \div MinutesPerHour) % HoursPerDay

\* Time.In(loc).Hour()
Hour(loc, t) == (Wall(loc, t) \div MinutesPerHour) % HoursPerDay

\* time.Date(..., loc): the instant of a wall-clock reading.  The offset is
\* looked up at the reading taken as UTC and looked up again when the
\* resulting instant lies outside that offset's period.
Date(loc, wall) ==
    LET offset == Offset(loc, wall)
        utc == wall - offset
        valid == IF wall < loc.at THEN utc < loc.at ELSE utc >= loc.at
    IN  IF offset = 0 THEN wall
        ELSE IF valid THEN utc
        ELSE wall - Offset(loc, utc)

\* time.Date(t.Year(), t.Month(), t.Day(), t.Hour(), 0, 0, 0, t.Location())
HourBoundary(loc, t) ==
    Date(loc, (Wall(loc, t) \div MinutesPerHour) * MinutesPerHour)

(***************************************************************************)
(* Arithmetic helpers                                                      *)
(***************************************************************************)
\* math.Ceil(a / b) for b > 0
Ceil(a, b) == -((-a) \div b)

RECURSIVE SumAgents(_)
\* sum of AgentsNeeded over a list of CustomerRequirement
SumAgents(reqs) ==
    IF reqs = <<>> THEN 0
    ELSE Head(reqs).AgentsNeeded + SumAgents(Tail(reqs))

(***************************************************************************)
(* Interval decomposition of one record (GenerateSchedule, loop body)      *)
(***************************************************************************)
\* mutant of NormalizedEnd: an end equal to the start is moved as well
NormalizedEndInclusive(cd) ==
    IF cd.EndTime <= cd.StartTime THEN cd.EndTime + MinutesPerDay ELSE cd.EndTime

\* end after the overnight correction
NormalizedEnd(cd) ==
    IF cd.EndTime < cd.StartTime THEN cd.EndTime + MinutesPerDay ELSE cd.EndTime

\* endHourBoundary: end rounded up to the next hour boundary
EndHourBoundary(loc, end) ==
    LET b == HourBoundary(loc, end)
    IN  IF end > b THEN b + MinutesPerHour ELSE b

\* float64 rounding of callsPerHour * hoursUsedInThisSlot * float64(AHT) / 3600.0:
\* the slots <<NumberOfCalls, duration, used, AverageCallDurationSeconds>>
\* (minutes, seconds) of the model's inputs whose product is an integer in
\* exact arithmetic and lands above that integer in IEEE-754 double precision
\* (7 / (50.0/60) is rounded up to 8.4 + 1ulp, and 8.4 + 1ulp times 50.0/60
\* is 7.000000000000001).  Every other slot of the inputs is rounded to a
\* value with the exact ceiling.
RoundedAboveSlots == {<<7, 50, 50, 3600>>}

\* float64 rounding of float64(agentsNeeded) * utilizationMultiplier: the
\* pairs <<agentsNeeded, utilization>> of the model's inputs whose exact
\* quotient is an integer and whose product with the rounded reciprocal
\* 1 / utilization lands above it (1 / 0.44 is rounded up, and 11 times it
\* is 25.000000000000004).
RoundedAboveQuotients == {<<11, <<11, 25>>>>, <<22, <<11, 25>>>>}

\* int(math.Ceil(callsThisHour * float64(cd.AverageCallDurationSeconds) / 3600.0))
RawAgents(cd, duration, used) ==
    Ceil(cd.NumberOfCalls * used * cd.AverageCallDurationSeconds,
         duration * SecondsPerHour)
    + (IF <<cd.NumberOfCalls, duration, used, cd.AverageCallDurationSeconds>>
            \in RoundedAboveSlots THEN 1 ELSE 0)

\* the least and the largest int, on the scale of the model's integers
MinInt64 == -1073741824

MaxInt64 == 1073741823

\* int(x) for an x that is +Inf (sign 1), -Inf (sign -1) or NaN (sign 0).
\* The language leaves the conversion of a value that int cannot hold to
\* the implementation: amd64 yields the least int for all three, arm64
\* saturates and yields 0 for NaN.
ConvertNonFinite(sign) ==
    IF arch = "amd64" THEN MinInt64
    ELSE IF sign > 0 THEN MaxInt64
    ELSE IF sign < 0 THEN MinInt64
    ELSE 0

\* utilizationMultiplier := 1 / utilization
\* int(math.Ceil(float64(agentsNeeded) * utilizationMultiplier))
\* 1 / 0 is +Inf, and its product with agentsNeeded is +Inf, -Inf or NaN
UtilizationAdjusted(raw, util) ==
    IF util[1] = 0
    THEN ConvertNonFinite(IF raw > 0 THEN 1 ELSE IF raw < 0 THEN -1 ELSE 0)
    ELSE Ceil(raw * util[2], util[1])
         + (IF <<raw, util>> \in RoundedAboveQuotients THEN 1 ELSE 0)

\* agentsNeeded of one slot with `used` minutes of overlap
AgentsForSlot(cd, duration, used, util) ==
    UtilizationAdjusted(RawAgents(cd, duration, used), util)

RECURSIVE WalkHours(_, _, _, _, _, _)
\* the hour-by-hour loop from t to endBoundary: the emitted entries, in order
WalkHours(cd, start, end, t, endBoundary, util) ==
    IF ~(t < endBoundary) THEN <<>>
    ELSE
        LET hourEnd == t + MinutesPerHour
            actualStart == IF start > t THEN start ELSE t
            actualEnd == IF end < hourEnd THEN end ELSE hourEnd
            used == actualEnd - actualStart
            entry == [hour |-> Hour(cd.Location, t),
                      req  |-> [Name         |-> cd.CustomerName,
                                AgentsNeeded |-> AgentsForSlot(cd, end - start, used, util),
                                Location     |-> cd.Location.name,
                                Priority     |-> cd.Priority]]
        IN  (IF used <= 0 THEN <<>> ELSE <<entry>>)
            \o WalkHours(cd, start, end, hourEnd, endBoundary, util)

\* all entries one record emits, in emission order
Decompose(cd, util) ==
    LET start == cd.StartTime
        end == NormalizedEnd(cd)
    IN  IF end - start <= 0 THEN <<>>
        ELSE WalkHours(cd, start, end,
                       HourBoundary(cd.Location, start),
                       EndHourBoundary(cd.Location, end), util)

RECURSIVE WalkedMinutes(_, _, _, _)
\* the minutes of hoursUsedInThisSlot, summed over the steps of the
\* hour-by-hour loop from t to endBoundary that emit an entry
WalkedMinutes(start, end, t, endBoundary) ==
    IF ~(t < endBoundary) THEN 0
    ELSE
        LET hourEnd == t + MinutesPerHour
            actualStart == IF start > t THEN start ELSE t
            actualEnd == IF end < hourEnd THEN end ELSE hourEnd
            used == actualEnd - actualStart
        IN  (IF used <= 0 THEN 0 ELSE used)
            + WalkedMinutes(start, end, hourEnd, endBoundary)

RECURSIVE AppendAll(_, _)
\* hourlyRequests[h] = append(hourlyRequests[h], ...) for every emitted entry
AppendAll(buckets, entries) ==
    IF entries = <<>> THEN buckets
    ELSE LET e == Head(entries)
         IN  AppendAll([buckets EXCEPT ![e.hour] = Append(@, e.req)], Tail(entries))

(***************************************************************************)
(* Capacity allocation of one hour (allocateWithConstraints)               *)
(***************************************************************************)
\* mutant of MinPriority: the sort compares with > and serves priority 2 before 1
MinPriorityDescending(requests, S) ==
    {a \in S : \A b \in S : requests[a].Priority >= requests[b].Priority}

\* the indices of S whose request has the least Priority value
MinPriority(requests, S) ==
    {a \in S : \A b \in S : requests[a].Priority <= requests[b].Priority}

RECURSIVE SortedOrders(_, _)
\* every order of the indices S that is ascending in Priority
SortedOrders(requests, S) ==
    IF S = {} THEN {<<>>}
    ELSE UNION {{<<a>> \o rest : rest \in SortedOrders(requests, S \ {a})} :
                a \in MinPriority(requests, S)}

\* mutant of SortSlice: the requests are left in their aggregation order
SortSliceOmitted(requests) == {requests}

\* sort.Slice(requests, Priority <): the outcomes the sort may leave in
\* requests.  sort.Slice is not a stable sort, so entries of equal Priority
\* may end in any relative order.
SortSlice(requests) ==
    {[k \in 1..Len(requests) |-> requests[order[k]]] :
        order \in SortedOrders(requests, 1..Len(requests))}

\* mutant of FastPath: the comparison is strict
FastPathStrict(capacity, totalDemand) == capacity > totalDemand

\* fast path test: capacity covers the whole demand
FastPath(capacity, totalDemand) == capacity >= totalDemand

\* mutant of Impacted: UnmetAgents is the whole request
ImpactedWholeRequest(req, given) ==
    [Name            |-> req.Name,
     RequestedAgents |-> req.AgentsNeeded,
     AllocatedAgents |-> given,
     UnmetAgents     |-> req.AgentsNeeded,
     Priority        |-> req.Priority]

\* the ImpactedClient recorded for req when it is given `given` agents
Impacted(req, given) ==
    [Name            |-> req.Name,
     RequestedAgents |-> req.AgentsNeeded,
     AllocatedAgents |-> given,
     UnmetAgents     |-> req.AgentsNeeded - given,
     Priority        |-> req.Priority]

\* mutant of PartialAllocation: the partial entry keeps the requested count
PartialAllocationKeepsRequest(req, remaining) == req

\* the entry appended to allocated on a partial allocation
PartialAllocation(req, remaining) == [req EXCEPT !.AgentsNeeded = remaining]

RECURSIVE AllocationPass(_, _, _, _)
\* the single allocation pass over the sorted requests
AllocationPass(requests, remaining, allocated, impactedClients) ==
    IF requests = <<>>
    THEN [allocated |-> allocated, impactedClients |-> impactedClients]
    ELSE
        LET req == Head(requests)
            rest == Tail(requests)
        IN  IF remaining <= 0
            THEN AllocationPass(rest, remaining, allocated,
                                Append(impactedClients, Impacted(req, 0)))
            ELSE IF remaining >= req.AgentsNeeded
            THEN AllocationPass(rest, remaining - req.AgentsNeeded,
                                Append(allocated, req), impactedClients)
            ELSE AllocationPass(rest, 0,
                                Append(allocated, PartialAllocation(req, remaining)),
                                Append(impactedClients, Impacted(req, remaining)))

\* mutant of NewUnmetDemand: UnmetAgents is the whole demand
NewUnmetDemandWholeDemand(totalDemand, capacity, impactedClients) ==
    [Hour            |-> 0,
     TotalDemand     |-> totalDemand,
     AllocatedAgents |-> capacity,
     UnmetAgents     |-> totalDemand,
     ImpactedClients |-> impactedClients]

\* the UnmetDemand built after the pass; Hour is left at its zero value
NewUnmetDemand(totalDemand, capacity, impactedClients) ==
    [Hour            |-> 0,
     TotalDemand     |-> totalDemand,
     AllocatedAgents |-> capacity,
     UnmetAgents     |-> totalDemand - capacity,
     ImpactedClients |-> impactedClients]

\* result of the constrained path for one outcome of the sort;
\* unmet is <<>> for a nil *UnmetDemand
Constrained(sorted, totalDemand, capacity) ==
    LET pass == AllocationPass(sorted, capacity, <<>>, <<>>)
    IN  [allocated |-> pass.allocated,
         unmet     |-> IF Len(pass.impactedClients) > 0
                       THEN <<NewUnmetDemand(totalDemand, capacity, pass.impactedClients)>>
                       ELSE <<>>]

\* allocateWithConstraints: the set of results it can return
allocateWithConstraints(requests, capacity) ==
    IF Len(requests) = 0 THEN {[allocated |-> <<>>, unmet |-> <<>>]}
    ELSE IF FastPath(capacity, SumAgents(requests))
    THEN {[allocated |-> requests, unmet |-> <<>>]}
    ELSE {Constrained(sorted, SumAgents(requests), capacity) :
            sorted \in SortSlice(requests)}

(***************************************************************************)
(* GenerateSchedule                                                        *)
(***************************************************************************)
\* the inputs the model draws from
Names == {"A", "B"}

HandleTimes == {3600}

\* 05:00 UTC, 01:00 EDT
StartTimes == {300}

\* 07:00 UTC, 02:00 EST
EndTimes == {420}

CallCounts == {-2, 0, 4}

Priorities == {1, 2}

Capacities == {0, 1, 3}

Utilizations == {<<1, 1>>}

CallData ==
    [CustomerName : Names,
     AverageCallDurationSeconds : HandleTimes,
     StartTime : StartTimes,
     EndTime : EndTimes,
     Location : Locations,
     NumberOfCalls : CallCounts,
     Priority : Priorities]

\* Parse is not running
ParserIdle ==
    /\ input = <<>>
    /\ lineNum = 0
    /\ currentLoc = UTC
    /\ err = <<>>

\* metrics.ResetSchedulerGauges: the three totals are set to 0
ResetSchedulerGauges == [demanded |-> 0, allocated |-> 0, unmet |-> 0]

Init ==
    /\ data \in UNION {[1..n -> CallData] : n \in 0..MaxRecords}
    /\ utilization \in Utilizations
    /\ capacityPerHour \in Capacities
    /\ hourlyRequests = [hh \in 0..(HoursPerDay - 1) |-> <<>>]
    /\ UnmetDemands = <<>>
    /\ pc = "decompose"
    /\ i = 1
    /\ h = 0
    /\ arch = "amd64"
    /\ previous = <<>>
    /\ ParserIdle
    /\ gauges = ResetSchedulerGauges
    /\ compared = <<>>
    /\ formatted = <<>>

\* one iteration of `for _, cd := range data`
ProcessRecord ==
    /\ pc = "decompose"
    /\ i <= Len(data)
    /\ hourlyRequests' = AppendAll(hourlyRequests, Decompose(data[i], utilization))
    /\ i' = i + 1
    /\ UNCHANGED <<data, utilization, capacityPerHour, UnmetDemands, pc, h, arch, previous,
                   parserVars, outputVars>>

\* mutant of ApplyConstraints: capacity 0 is taken as a limit
ApplyConstraintsFromZero(capacity) == capacity >= 0

\* `if capacityPerHour > 0`
ApplyConstraints(capacity) == capacity > 0

\* the schedule is assembled from the buckets; the allocation loop is
\* entered only under a capacity limit
AssembleSchedule ==
    /\ pc = "decompose"
    /\ i > Len(data)
    /\ UnmetDemands' = <<>>
    /\ pc' = IF ApplyConstraints(capacityPerHour) THEN "allocate" ELSE "done"
    /\ h' = 0
    /\ UNCHANGED <<data, utilization, capacityPerHour, hourlyRequests, i, arch, previous,
                   parserVars, outputVars>>

\* mutant of TagHour: the hour is not written
TagHourOmitted(unmet, hh) == unmet

\* unmet.Hour = h
TagHour(unmet, hh) == [unmet EXCEPT !.Hour = hh]

\* one iteration of `for h := range 24`; the function returns after the last
AllocateHour ==
    /\ pc = "allocate"
    /\ h < HoursPerDay
    /\ \E result \in allocateWithConstraints(hourlyRequests[h], capacityPerHour) :
          /\ hourlyRequests' = [hourlyRequests EXCEPT ![h] = result.allocated]
          /\ UnmetDemands' = IF result.unmet # <<>>
                             THEN Append(UnmetDemands, TagHour(result.unmet[1], h))
                             ELSE UnmetDemands
    /\ h' = h + 1
    /\ pc' = IF h + 1 = HoursPerDay THEN "done" ELSE "allocate"
    /\ UNCHANGED <<data, utilization, capacityPerHour, i, arch, previous, parserVars, outputVars>>

Next == ProcessRecord \/ AssembleSchedule \/ AllocateHour

Spec == Init /\ [][Next]_vars

(***************************************************************************)
(* main: a run of the command line program                                 *)
(***************************************************************************)
Architectures == {"amd64", "arm64"}

MainLocations == {UTC, NewYorkFallBack, NewYorkSpringForward}

\* <<start, end>> of the windows, minutes on the UTC line:
\*   04:00-08:00  New York fall-back 00:00 EDT - 03:00 EST
\*   06:00-08:00  New York spring-forward 01:00 EST - 04:00 EDT
\*   06:30-07:30  New York spring-forward 01:30 EST - 03:30 EDT
\*   05:00-06:30  New York fall-back 01:00 EDT - 01:30 EST
\*   22:00-02:00  overnight, the end is before the start
\*   02:00-06:30 of the day before: overnight, New York 22:00 EDT - 02:30 EDT
\*                of the day before, which ends 24h later at 01:30 EST
\*   05:00-05:00  no duration
\*   10:00-10:50  less than an hour
Windows ==
    {<<240, 480>>, <<360, 480>>, <<390, 450>>, <<300, 390>>,
     <<1320, 120>>, <<120, -1050>>, <<300, 300>>, <<600, 650>>}

MainHandleTimes == {1800, 3600}

MainCallCounts == {-3, 0, 7, 22}

\* -capacity
MainCapacities == {0, 5}

\* -utilization: 1, 0.8, 0.44, 0, and -0.5 and 1.5 out of range
MainUtilizations == {<<1, 1>>, <<4, 5>>, <<11, 25>>, <<0, 1>>, <<-1, 2>>, <<3, 2>>}

\* the records of customer A that parser.Parse may hand over
MainCallData ==
    {[CustomerName |-> "A",
      AverageCallDurationSeconds |-> aht,
      StartTime |-> w[1],
      EndTime |-> w[2],
      Location |-> loc,
      NumberOfCalls |-> calls,
      Priority |-> 1] :
        aht \in MainHandleTimes, w \in Windows,
        loc \in MainLocations, calls \in MainCallCounts}

\* a record of customer B of lower priority, 05:00-07:00 UTC
OtherRecord ==
    [CustomerName |-> "B",
     AverageCallDurationSeconds |-> 3600,
     StartTime |-> 300,
     EndTime |-> 420,
     Location |-> UTC,
     NumberOfCalls |-> 4,
     Priority |-> 2]

\* main after flag.Parse.  The allocation of counts that int cannot hold
\* sums them at 64 bits, outside the integers of the model: utilization 0
\* is run without a capacity limit.
InitMain ==
    /\ data \in {<<cd>> : cd \in MainCallData}
                \cup {<<cd, OtherRecord>> : cd \in MainCallData}
    /\ utilization \in MainUtilizations
    /\ capacityPerHour \in MainCapacities
    /\ utilization[1] = 0 => capacityPerHour = 0
    /\ hourlyRequests = [hh \in 0..(HoursPerDay - 1) |-> <<>>]
    /\ UnmetDemands = <<>>
    /\ pc = "main"
    /\ i = 1
    /\ h = 0
    /\ arch \in Architectures
    /\ previous = <<>>
    /\ ParserIdle
    /\ gauges = ResetSchedulerGauges
    /\ compared = <<>>
    /\ formatted = <<>>

\* `*utilization < 0 || *utilization > 1`
OutOfRange(util) == util[1] < 0 \/ util[1] > util[2]

\* main: the utilization flag is validated, then the schedule is generated;
\* os.Exit(1) on a utilization out of range
Main ==
    /\ pc = "main"
    /\ pc' = IF OutOfRange(utilization) THEN "exit" ELSE "decompose"
    /\ UNCHANGED <<data, utilization, capacityPerHour, hourlyRequests, UnmetDemands,
                   i, h, arch, previous, parserVars, outputVars>>

NextMain == Main \/ ProcessRecord \/ AssembleSchedule \/ AllocateHour

SpecMain == InitMain /\ [][NextMain]_vars

(***************************************************************************)
(* A second call of GenerateSchedule in the same process                   *)
(***************************************************************************)
\* the Schedule value that GenerateSchedule returns
ReturnedSchedule ==
    [HourlyRequirements |-> hourlyRequests, UnmetDemands |-> UnmetDemands]

\* mutant of NewBuckets: the buckets of the call before are used again
BucketsKept == hourlyRequests

\* hourlyRequests := make([][]models.CustomerRequirement, 24), every bucket empty
NewBuckets == [hh \in 0..(HoursPerDay - 1) |-> <<>>]

\* the caller keeps the returned Schedule and calls GenerateSchedule again
\* with the same arguments; the locals of the call are made anew
Reinvoke ==
    /\ pc = "done"
    /\ previous = <<>>
    /\ previous' = <<ReturnedSchedule>>
    /\ hourlyRequests' = NewBuckets
    /\ UnmetDemands' = <<>>
    /\ pc' = "decompose"
    /\ i' = 1
    /\ h' = 0
    /\ UNCHANGED <<data, utilization, capacityPerHour, arch, parserVars, outputVars>>

NextTwice == Main \/ ProcessRecord \/ AssembleSchedule \/ AllocateHour \/ Reinvoke

SpecTwice == InitMain /\ [][NextTwice]_vars

(***************************************************************************)
(* Parse: the CSV records are turned into CallData                         *)
(***************************************************************************)
MaxRows == 3

\* the zones of the day the program runs on (time.Now), a fall-back day
LosAngeles ==
    [name |-> "America/Los_Angeles", before |-> -420, after |-> -480, at |-> 540]

Chicago == [name |-> "America/Chicago", before |-> -300, after |-> -360, at |-> 420]

Denver == [name |-> "America/Denver", before |-> -360, after |-> -420, at |-> 480]

Tokyo == [name |-> "Asia/Tokyo", before |-> 540, after |-> 540, at |-> 0]

\* time.LoadLocation: the zones of the time zone database; a name outside
\* the domain is an error
LoadLocation ==
    ("America/Los_Angeles" :> LosAngeles) @@ ("America/New_York" :> NewYorkFallBack)
    @@ ("America/Chicago" :> Chicago) @@ ("America/Denver" :> Denver)
    @@ ("Asia/Tokyo" :> Tokyo) @@ ("UTC" :> UTC)

\* getTimezoneLocation: the location and the error it returns (<<>> is nil).
\* A code that is neither an abbreviation nor a name of the database gets
\* the result of time.LoadLocation("America/Los_Angeles").
getTimezoneLocation(code) ==
    [loc |-> CASE code = "PT" -> LoadLocation["America/Los_Angeles"]
               [] code = "ET" -> LoadLocation["America/New_York"]
               [] code = "CT" -> LoadLocation["America/Chicago"]
               [] code = "MT" -> LoadLocation["America/Denver"]
               [] code = "UTC" -> UTC
               [] OTHER -> IF code \in DOMAIN LoadLocation
                           THEN LoadLocation[code]
                           ELSE LoadLocation["America/Los_Angeles"],
     err |-> <<>>]

\* strings.HasPrefix(field, "#"): the first fields of the input that have it
HashFields == {"#CustomerName", "# comment"}

\* strings.HasPrefix(field, "StartTime") and strings.TrimPrefix: the third
\* fields of the input that have the prefix, and what is left without it
TrimStartTime ==
    ("StartTimePT" :> "PT") @@ ("StartTimeET" :> "ET") @@ ("StartTimeUTC" :> "UTC")
    @@ ("StartTimeAsia/Tokyo" :> "Asia/Tokyo") @@ ("StartTimeXX" :> "XX")

\* strconv.Atoi: the fields of the input that are integers, and their values
Atoi ==
    ("120" :> 120) @@ ("10" :> 10) @@ ("1" :> 1) @@ ("2" :> 2)
    @@ ("0" :> 0) @@ ("-5" :> -5)

\* time.ParseInLocation with the layouts 3:04PM and 3PM: the fields of the
\* input that match one, and the minute of the day they name
ClockTimes == ("9AM" :> 540) @@ ("5PM" :> 1020) @@ ("1:30AM" :> 90)

\* parseTime: the clock time on the current date in loc, or an error
parseTime(value, loc) ==
    IF value \in DOMAIN ClockTimes
    THEN [t |-> Date(loc, ClockTimes[value]), err |-> <<>>]
    ELSE [t |-> 0, err |-> <<"cannot parse">>]

\* header records
Header(startTime) ==
    <<"#CustomerName", "Duration", startTime, "EndTime", "Calls", "Priority">>

Headers ==
    {Header(f) : f \in DOMAIN TrimStartTime}
    \cup {Header("Start"), <<"# comment">>, <<"#CustomerName", "Duration", "StartTimeET">>}

\* the five fields after the name of a well-formed record
GoodFields == <<"120", "9AM", "5PM", "10", "1">>

\* a record of six fields whose fields k + 1, k in bad, are not parsable
DataRow(name, bad) ==
    <<name>> \o [k \in 1..5 |-> IF k \in bad THEN "abc" ELSE GoodFields[k]]

\* records with one unparsable field, and with all fields from one on unparsable
MalformedRows ==
    {DataRow("A", {k}) : k \in 1..5} \cup {DataRow("A", k..5) : k \in 1..5}
    \cup {<<"A", "120", "9AM", "5PM", "10">>}

\* well-formed records; the last has a negative duration and call count
\* and priority 0
WellFormedRows ==
    {DataRow("A", {}), <<"B", "120", "1:30AM", "9AM", "10", "2">>,
     <<"C", "-5", "9AM", "5PM", "-5", "0">>}

Records == Headers \cup WellFormedRows \cup MalformedRows

\* Parse has been called with a reader over the input
InitParse ==
    /\ input \in UNION {[1..n -> Records] : n \in 0..MaxRows}
    /\ lineNum = 0
    /\ currentLoc = LoadLocation["America/Los_Angeles"]
    /\ err = <<>>
    /\ data = <<>>
    /\ pc = "parse"
    /\ utilization = <<1, 1>>
    /\ capacityPerHour = 0
    /\ hourlyRequests = [hh \in 0..(HoursPerDay - 1) |-> <<>>]
    /\ UnmetDemands = <<>>
    /\ i = 1
    /\ h = 0
    /\ arch = "amd64"
    /\ previous = <<>>
    /\ gauges = ResetSchedulerGauges
    /\ compared = <<>>
    /\ formatted = <<>>

\* what Parse leaves alone
schedulerVars ==
    <<utilization, capacityPerHour, hourlyRequests, UnmetDemands, i, h, arch,
      previous, outputVars>>

\* the sentinel errors of package errors
ErrInvalidFieldCount == "invalid field count"

ErrInvalidDuration == "invalid duration"

ErrInvalidStartTime == "invalid start time"

ErrInvalidEndTime == "invalid end time"

ErrInvalidNumberOfCalls == "invalid number of calls"

ErrInvalidPriority == "invalid priority"

\* mutant of RowError: the priority is converted before the other fields
RowErrorPriorityFirst(record, loc) ==
    IF Len(record) # 6 THEN <<ErrInvalidFieldCount>>
    ELSE IF record[6] \notin DOMAIN Atoi THEN <<ErrInvalidPriority>>
    ELSE IF record[2] \notin DOMAIN Atoi THEN <<ErrInvalidDuration>>
    ELSE IF parseTime(record[3], loc).err # <<>> THEN <<ErrInvalidStartTime>>
    ELSE IF parseTime(record[4], loc).err # <<>> THEN <<ErrInvalidEndTime>>
    ELSE IF record[5] \notin DOMAIN Atoi THEN <<ErrInvalidNumberOfCalls>>
    ELSE <<>>

\* the sentinel the ParseError of a data record wraps, <<>> when every
\* conversion succeeds: the checks in the order Parse makes them
RowError(record, loc) ==
    IF Len(record) # 6 THEN <<ErrInvalidFieldCount>>
    ELSE IF record[2] \notin DOMAIN Atoi THEN <<ErrInvalidDuration>>
    ELSE IF parseTime(record[3], loc).err # <<>> THEN <<ErrInvalidStartTime>>
    ELSE IF parseTime(record[4], loc).err # <<>> THEN <<ErrInvalidEndTime>>
    ELSE IF record[5] \notin DOMAIN Atoi THEN <<ErrInvalidNumberOfCalls>>
    ELSE IF record[6] \notin DOMAIN Atoi THEN <<ErrInvalidPriority>>
    ELSE <<>>

\* the CallData built from a record whose conversions succeed
NewCallData(record, loc) ==
    [CustomerName |-> record[1],
     AverageCallDurationSeconds |-> Atoi[record[2]],
     StartTime |-> parseTime(record[3], loc).t,
     EndTime |-> parseTime(record[4], loc).t,
     Location |-> loc,
     NumberOfCalls |-> Atoi[record[5]],
     Priority |-> Atoi[record[6]]]

\* `len(record) > 0 && strings.HasPrefix(record[0], "#")`
IsHeader(record) == Len(record) > 0 /\ record[1] \in HashFields

\* the zone in force after a header record
HeaderLocation(record, loc) ==
    IF Len(record) >= 4 /\ record[3] \in DOMAIN TrimStartTime
    THEN LET resolved == getTimezoneLocation(TrimStartTime[record[3]])
         IN  IF resolved.err = <<>> THEN resolved.loc ELSE loc
    ELSE loc

\* a loop iteration that reads a header or comment record
ReadHeader ==
    /\ pc = "parse"
    /\ lineNum < Len(input)
    /\ IsHeader(input[lineNum + 1])
    /\ lineNum' = lineNum + 1
    /\ currentLoc' = HeaderLocation(input[lineNum + 1], currentLoc)
    /\ UNCHANGED <<data, pc, input, err, schedulerVars>>

\* a loop iteration that reads a data record and appends its CallData
ReadRow ==
    /\ pc = "parse"
    /\ lineNum < Len(input)
    /\ ~IsHeader(input[lineNum + 1])
    /\ RowError(input[lineNum + 1], currentLoc) = <<>>
    /\ lineNum' = lineNum + 1
    /\ data' = Append(data, NewCallData(input[lineNum + 1], currentLoc))
    /\ UNCHANGED <<pc, input, currentLoc, err, schedulerVars>>

\* a loop iteration that reads a malformed data record: Parse returns nil
\* and a ParseError
RejectRow ==
    /\ pc = "parse"
    /\ lineNum < Len(input)
    /\ ~IsHeader(input[lineNum + 1])
    /\ RowError(input[lineNum + 1], currentLoc) # <<>>
    /\ lineNum' = lineNum + 1
    /\ data' = <<>>
    /\ err' = <<[Line   |-> lineNum + 1,
                 Record |-> input[lineNum + 1],
                 Err    |-> RowError(input[lineNum + 1], currentLoc)[1]]>>
    /\ pc' = "returned"
    /\ UNCHANGED <<input, currentLoc, schedulerVars>>

\* reader.Read returns io.EOF: Parse returns data and nil
ReadEOF ==
    /\ pc = "parse"
    /\ lineNum = Len(input)
    /\ lineNum' = lineNum + 1
    /\ pc' = "returned"
    /\ UNCHANGED <<data, input, currentLoc, err, schedulerVars>>

NextParse == ReadHeader \/ ReadRow \/ RejectRow \/ ReadEOF

SpecParse == InitParse /\ [][NextParse]_vars

(***************************************************************************)
(* Definitions the properties are stated with                              *)
(***************************************************************************)
(* The formatter (package formatter) and the end of main                   *)
(***************************************************************************)
RECURSIVE GroupRequirements(_, _)
\* the loop of processHour over the requirements of one hour
GroupRequirements(requirements, hourly) ==
    IF requirements = <<>> THEN hourly
    ELSE
        LET req == Head(requirements)
            locName == req.Location
            group == IF locName \in DOMAIN hourly.LocationData
                     THEN hourly.LocationData[locName]
                     ELSE [Total |-> 0, Customers |-> <<>>]
            grown == [Total     |-> group.Total + req.AgentsNeeded,
                      Customers |-> (req.Name :> req.AgentsNeeded) @@ group.Customers]
        IN  GroupRequirements(
                Tail(requirements),
                [hourly EXCEPT !.LocationData = (locName :> grown) @@ @,
                               !.Total = @ + req.AgentsNeeded])

\* processHour: the HourlyData of one hour of the schedule
processHour(schedule, hour) ==
    GroupRequirements(schedule.HourlyRequirements[hour],
                      [Hour |-> hour, Total |-> 0, LocationData |-> <<>>,
                       UnmetDemand |-> <<>>])

\* the UnmetDemandInfo of an hour: that of the last UnmetDemand with the
\* hour, <<>> without one
UnmetDemandInfo(schedule, hour) ==
    LET with == SelectSeq(schedule.UnmetDemands, LAMBDA u : u.Hour = hour)
    IN  IF with = <<>> THEN <<>>
        ELSE LET unmet == with[Len(with)]
             IN  <<[TotalDemand     |-> unmet.TotalDemand,
                    AllocatedAgents |-> unmet.AllocatedAgents,
                    UnmetAgents     |-> unmet.UnmetAgents,
                    ImpactedClients |-> unmet.ImpactedClients]>>

\* prepareScheduleData: the HourlyData of the 24 hours
prepareScheduleData(schedule) ==
    [hour \in 0..(HoursPerDay - 1) |->
        [processHour(schedule, hour) EXCEPT
            !.UnmetDemand = UnmetDemandInfo(schedule, hour)]]

\* main as InitMain, without utilization 0: the sums of counts that int
\* cannot hold wrap around at 64 bits, outside the integers of the model
InitFormat == InitMain /\ utilization[1] # 0

\* main hands the returned schedule to the formatter
Format ==
    /\ pc = "done"
    /\ formatted' = prepareScheduleData(ReturnedSchedule)
    /\ pc' = "formatted"
    /\ UNCHANGED <<data, utilization, capacityPerHour, hourlyRequests, UnmetDemands,
                   i, h, arch, previous, parserVars, gauges, compared>>

NextFormat == Main \/ ProcessRecord \/ AssembleSchedule \/ AllocateHour \/ Format

SpecFormat == InitFormat /\ [][NextFormat]_vars

(***************************************************************************)
(* The instrumented scheduler (package scheduler with package metrics)     *)
(***************************************************************************)
RECURSIVE SumRequirements(_, _)
\* the sum of AgentsNeeded over the entries of the hours from hour on
SumRequirements(requirements, hour) ==
    IF hour >= HoursPerDay THEN 0
    ELSE SumAgents(requirements[hour]) + SumRequirements(requirements, hour + 1)

RECURSIVE SumTotalDemand(_)
\* the sum of TotalDemand over a list of UnmetDemand
SumTotalDemand(unmets) ==
    IF unmets = <<>> THEN 0
    ELSE Head(unmets).TotalDemand + SumTotalDemand(Tail(unmets))

RECURSIVE SumUnmetDemand(_)
\* the sum of UnmetAgents over a list of UnmetDemand
SumUnmetDemand(unmets) ==
    IF unmets = <<>> THEN 0
    ELSE Head(unmets).UnmetAgents + SumUnmetDemand(Tail(unmets))

\* computeScheduleMetrics: the values the three gauges are set to
computeScheduleMetrics(schedule) ==
    LET totalAllocated == SumRequirements(schedule.HourlyRequirements, 0)
        totalUnmet == SumUnmetDemand(schedule.UnmetDemands)
        totalDemanded == SumTotalDemand(schedule.UnmetDemands) + totalAllocated
    IN  [demanded |-> totalDemanded, allocated |-> totalAllocated, unmet |-> totalUnmet]

\* a call from main, without utilization 0: the sums of counts that int
\* cannot hold are outside the integers of the model
InitInstrumented == InitMain /\ utilization[1] # 0

\* the last step of the instrumented GenerateSchedule
ComputeScheduleMetrics ==
    /\ pc = "done"
    /\ gauges' = computeScheduleMetrics(ReturnedSchedule)
    /\ pc' = "reported"
    /\ UNCHANGED <<data, utilization, capacityPerHour, hourlyRequests, UnmetDemands,
                   i, h, arch, previous, parserVars, compared, formatted>>

NextInstrumented ==
    Main \/ ProcessRecord \/ AssembleSchedule \/ AllocateHour \/ ComputeScheduleMetrics

SpecInstrumented == InitInstrumented /\ [][NextInstrumented]_vars

(***************************************************************************)
(* The two-pass version of allocateWithConstraints                         *)
(***************************************************************************)
MaxRequests == 3

RECURSIVE allocateFullRequests(_, _, _, _, _)
\* first pass, from index k on: every request that fits in what remains is
\* allocated in full; the pass goes on after a request that does not fit
allocateFullRequests(requests, k, allocated, processedIndices, remainingCapacity) ==
    IF k > Len(requests)
    THEN [allocated |-> allocated, processedIndices |-> processedIndices,
          remainingCapacity |-> remainingCapacity]
    ELSE IF remainingCapacity >= requests[k].AgentsNeeded
    THEN allocateFullRequests(requests, k + 1, Append(allocated, requests[k]),
                              processedIndices \cup {k},
                              remainingCapacity - requests[k].AgentsNeeded)
    ELSE allocateFullRequests(requests, k + 1, allocated, processedIndices,
                              remainingCapacity)

\* second pass: the first request that is not processed gets what remains
allocatePartialRequest(requests, allocated, processedIndices, remainingCapacity) ==
    LET open == (1..Len(requests)) \ processedIndices
    IN  IF remainingCapacity = 0 \/ open = {}
        THEN [allocated |-> allocated, impactedClients |-> <<>>,
              processedIndices |-> processedIndices]
        ELSE LET k == CHOOSE a \in open : \A b \in open : a <= b
                 req == requests[k]
             IN  [allocated |-> Append(allocated,
                                       [Name         |-> req.Name,
                                        AgentsNeeded |-> remainingCapacity,
                                        Location     |-> req.Location,
                                        Priority     |-> req.Priority]),
                  impactedClients |->
                      <<[Name            |-> req.Name,
                         RequestedAgents |-> req.AgentsNeeded,
                         AllocatedAgents |-> remainingCapacity,
                         UnmetAgents     |-> req.AgentsNeeded - remainingCapacity,
                         Priority        |-> req.Priority]>>,
                  processedIndices |-> processedIndices \cup {k}]

RECURSIVE UnprocessedClients(_, _, _)
\* the ImpactedClients of the requests from index k on that are not processed
UnprocessedClients(requests, k, processedIndices) ==
    IF k > Len(requests) THEN <<>>
    ELSE (IF k \in processedIndices THEN <<>>
          ELSE <<[Name            |-> requests[k].Name,
                  RequestedAgents |-> requests[k].AgentsNeeded,
                  AllocatedAgents |-> 0,
                  UnmetAgents     |-> requests[k].AgentsNeeded,
                  Priority        |-> requests[k].Priority]>>)
         \o UnprocessedClients(requests, k + 1, processedIndices)

\* recordUnmetDemands: <<>> is nil
recordUnmetDemands(requests, impactedClients, processedIndices, totalDemand, capacity) ==
    LET clients == impactedClients \o UnprocessedClients(requests, 1, processedIndices)
    IN  IF Len(clients) > 0
        THEN <<[Hour            |-> 0,
                TotalDemand     |-> totalDemand,
                AllocatedAgents |-> capacity,
                UnmetAgents     |-> totalDemand - capacity,
                ImpactedClients |-> clients]>>
        ELSE <<>>

\* the two passes over one outcome of the sort
TwoPasses(sorted, totalDemand, capacity) ==
    LET full == allocateFullRequests(sorted, 1, <<>>, {}, capacity)
        partial == allocatePartialRequest(sorted, full.allocated,
                                          full.processedIndices,
                                          full.remainingCapacity)
    IN  [allocated |-> partial.allocated,
         unmet     |-> recordUnmetDemands(sorted, partial.impactedClients,
                                          partial.processedIndices,
                                          totalDemand, capacity)]

\* the two-pass allocateWithConstraints: the set of results it can return
allocateWithConstraintsTwoPass(requests, capacity) ==
    {TwoPasses(sorted, SumAgents(requests), capacity) : sorted \in SortSlice(requests)}

\* the requests of one hour that the two versions are called with
RequestNames == {"A", "B"}

RequestSizes == {0, 2, 5}

RequestPriorities == {1, 2, 3}

RequestCapacities == {1, 3, 7}

Requirements ==
    [Name : RequestNames, AgentsNeeded : RequestSizes, Location : {UTC.name},
     Priority : RequestPriorities]

\* both versions are about to be called with the requests of hour 0
InitAllocators ==
    /\ \E n \in 0..MaxRequests : \E requests \in [1..n -> Requirements] :
          hourlyRequests = [NewBuckets EXCEPT ![0] = requests]
    /\ capacityPerHour \in RequestCapacities
    /\ data = <<>>
    /\ utilization = <<1, 1>>
    /\ UnmetDemands = <<>>
    /\ pc = "allocate"
    /\ i = 1
    /\ h = 0
    /\ arch = "amd64"
    /\ previous = <<>>
    /\ ParserIdle
    /\ gauges = ResetSchedulerGauges
    /\ compared = <<>>
    /\ formatted = <<>>

\* each version is called with its own copy of the requests and the capacity
CompareAllocators ==
    /\ pc = "allocate"
    /\ \E single \in allocateWithConstraints(hourlyRequests[0], capacityPerHour) :
       \E two \in allocateWithConstraintsTwoPass(hourlyRequests[0], capacityPerHour) :
          compared' = [singlePass |-> single, twoPass |-> two]
    /\ pc' = "allocated"
    /\ UNCHANGED <<data, utilization, capacityPerHour, hourlyRequests, UnmetDemands,
                   i, h, arch, previous, parserVars, gauges, formatted>>

NextAllocators == CompareAllocators

SpecAllocators == InitAllocators /\ [][NextAllocators]_vars

(***************************************************************************)
HourIndex == 0..(HoursPerDay - 1)

RECURSIVE EntriesFrom(_)
\* the entries records k..Len(data) emit, in emission order
EntriesFrom(k) ==
    IF k > Len(data) THEN <<>>
    ELSE Decompose(data[k], utilization) \o EntriesFrom(k + 1)

\* the aggregated (unconstrained) demand lists of the 24 hours
Demand == AppendAll([x \in HourIndex |-> <<>>], EntriesFrom(1))

\* GenerateSchedule has returned a schedule built under a capacity limit
Limited == pc = "done" /\ capacityPerHour > 0

\* the UnmetDemand records of hour hh
UnmetOf(hh) == SelectSeq(UnmetDemands, LAMBDA u : u.Hour = hh)

RECURSIVE SumUnmet(_)
\* sum of UnmetAgents over a list of UnmetDemand or ImpactedClient
SumUnmet(us) ==
    IF us = <<>> THEN 0 ELSE Head(us).UnmetAgents + SumUnmet(Tail(us))

\* hour hh went through the constrained path; d is the aggregated demand
Breached(d, hh) == Limited /\ SumAgents(d[hh]) > capacityPerHour

RECURSIVE InsertByPriority(_, _)
\* req placed behind every entry of sorted whose Priority is not larger
InsertByPriority(sorted, req) ==
    IF sorted = <<>> THEN <<req>>
    ELSE IF Head(sorted).Priority <= req.Priority
         THEN <<Head(sorted)>> \o InsertByPriority(Tail(sorted), req)
         ELSE <<req>> \o sorted

RECURSIVE StableSort(_)
\* reqs sorted by Priority, entries of equal Priority in their original order
StableSort(reqs) ==
    IF reqs = <<>> THEN <<>>
    ELSE InsertByPriority(StableSort(SubSeq(reqs, 1, Len(reqs) - 1)), reqs[Len(reqs)])

\* customer names in alphabetical order
NameBefore(a, b) == a = "A" /\ b = "B"

\* the entries of a breached hour in the order they were served: the
\* allocated ones, then the ones that were given nothing
ServedOrder(hh) ==
    hourlyRequests[hh] \o
    [k \in 1..Len(SelectSeq(UnmetOf(hh)[1].ImpactedClients,
                            LAMBDA c : c.AllocatedAgents = 0)) |->
        LET c == SelectSeq(UnmetOf(hh)[1].ImpactedClients,
                           LAMBDA x : x.AllocatedAgents = 0)[k]
        IN  [Name |-> c.Name, Priority |-> c.Priority]]

(***************************************************************************)
(* Properties of the schedule GenerateSchedule returns                     *)
(***************************************************************************)
\* C1 Conservation: in every hour of a schedule returned under a capacity
\* > 0, the agents of the allocated list plus the UnmetAgents of the hour's
\* UnmetDemand (0 without one) equal the hour's aggregated demand.
Conservation ==
    Limited =>
        LET d == Demand
        IN  \A hh \in HourIndex :
                SumAgents(hourlyRequests[hh]) + SumUnmet(UnmetOf(hh)) = SumAgents(d[hh])

ConservationWitness ==
    /\ Limited
    /\ \E hh \in HourIndex :
          /\ UnmetOf(hh) # <<>>
          /\ hourlyRequests[hh] # <<>>
          /\ Len(Demand[hh]) > Len(hourlyRequests[hh])

\* C2 Priority monotonicity: when an entry of priority p1 got fewer agents
\* than it requested, every entry of the hour with a priority p2 > p1 got 0.
PriorityMonotonicity ==
    Limited =>
        \A hh \in HourIndex :
            \A u \in {UnmetOf(hh)[k] : k \in 1..Len(UnmetOf(hh))} :
                \A c \in {u.ImpactedClients[k] : k \in 1..Len(u.ImpactedClients)} :
                    c.AllocatedAgents < c.RequestedAgents =>
                        \A e \in {hourlyRequests[hh][k] : k \in 1..Len(hourlyRequests[hh])} :
                            e.Priority > c.Priority => e.AgentsNeeded = 0

PriorityMonotonicityWitness ==
    /\ Limited
    /\ \E hh \in HourIndex :
          /\ UnmetOf(hh) # <<>>
          /\ \E k1, k2 \in 1..Len(UnmetOf(hh)[1].ImpactedClients) :
                LET c1 == UnmetOf(hh)[1].ImpactedClients[k1]
                    c2 == UnmetOf(hh)[1].ImpactedClients[k2]
                IN  /\ c1.AllocatedAgents > 0
                    /\ c1.AllocatedAgents < c1.RequestedAgents
                    /\ c1.Priority < c2.Priority
                    /\ c2.RequestedAgents > 0
                    /\ c2.AllocatedAgents = 0

\* C3 Capacity boundary: under a capacity > 0 no hour's allocated list sums
\* to more than the capacity.
CapacityBoundary ==
    Limited =>
        \A hh \in HourIndex : SumAgents(hourlyRequests[hh]) <= capacityPerHour

CapacityBoundaryWitness ==
    /\ Limited
    /\ \E hh \in HourIndex :
          /\ SumAgents(Demand[hh]) > capacityPerHour
          /\ Len(hourlyRequests[hh]) > 1
          /\ SumAgents(hourlyRequests[hh]) = capacityPerHour

\* C4 Fast path: when the capacity covers the hour's demand the bucket is the
\* demand list unchanged and the hour has no UnmetDemand; so for an empty list.
FastPathUnchanged ==
    Limited =>
        LET d == Demand
        IN  \A hh \in HourIndex :
                capacityPerHour >= SumAgents(d[hh]) =>
                    /\ hourlyRequests[hh] = d[hh]
                    /\ UnmetOf(hh) = <<>>

FastPathUnchangedWitness ==
    /\ Limited
    /\ \E hh \in HourIndex :
          /\ Len(Demand[hh]) > 1
          /\ capacityPerHour = SumAgents(Demand[hh])
          /\ Demand[hh][1].Priority > Demand[hh][2].Priority
          /\ hourlyRequests[hh] = Demand[hh]
    /\ \E hh \in HourIndex : Demand[hh] = <<>> /\ hourlyRequests[hh] = <<>>

\* C5 An hour has an UnmetDemand record exactly when its aggregated demand
\* exceeds the capacity; it has at most one, and every record carries the
\* index of the bucket it describes.
UnmetIffBreached ==
    Limited =>
        LET d == Demand
        IN  /\ \A hh \in HourIndex :
                  /\ (UnmetOf(hh) # <<>>) <=> (SumAgents(d[hh]) > capacityPerHour)
                  /\ Len(UnmetOf(hh)) <= 1
            /\ \A k \in 1..Len(UnmetDemands) :
                  /\ UnmetDemands[k].Hour \in HourIndex
                  /\ UnmetDemands[k].TotalDemand = SumAgents(d[UnmetDemands[k].Hour])

UnmetIffBreachedWitness ==
    /\ Limited
    /\ Len(UnmetDemands) > 1
    /\ \E hh \in HourIndex : Demand[hh] # <<>> /\ UnmetOf(hh) = <<>>

\* C6 Every UnmetDemand has UnmetAgents = TotalDemand - AllocatedAgents and
\* AllocatedAgents = capacity, every ImpactedClient has UnmetAgents =
\* RequestedAgents - AllocatedAgents, and none of these fields is negative.
UnmetArithmetic ==
    pc = "done" =>
        \A k \in 1..Len(UnmetDemands) :
            LET u == UnmetDemands[k]
            IN  /\ u.UnmetAgents = u.TotalDemand - u.AllocatedAgents
                /\ u.AllocatedAgents = capacityPerHour
                /\ u.TotalDemand >= 0 /\ u.AllocatedAgents >= 0 /\ u.UnmetAgents >= 0
                /\ \A j \in 1..Len(u.ImpactedClients) :
                      LET c == u.ImpactedClients[j]
                      IN  /\ c.UnmetAgents = c.RequestedAgents - c.AllocatedAgents
                          /\ c.RequestedAgents >= 0
                          /\ c.AllocatedAgents >= 0
                          /\ c.UnmetAgents >= 0

\* C7 ImpactedClients lists exactly the entries that got fewer agents than
\* they requested: every listed client has AllocatedAgents < RequestedAgents
\* (UnmetAgents > 0), and every entry that is not listed is in the allocated
\* list.
ImpactedExactlyUnderServed ==
    Limited =>
        LET d == Demand
        IN  \A hh \in HourIndex :
                \A u \in {UnmetOf(hh)[k] : k \in 1..Len(UnmetOf(hh))} :
                    /\ \A j \in 1..Len(u.ImpactedClients) :
                          /\ u.ImpactedClients[j].AllocatedAgents
                                < u.ImpactedClients[j].RequestedAgents
                          /\ u.ImpactedClients[j].UnmetAgents > 0
                    /\ Len(d[hh]) =
                          Len(hourlyRequests[hh])
                          + Len(SelectSeq(u.ImpactedClients,
                                          LAMBDA c : c.AllocatedAgents = 0))

\* C8 On the constrained path the entries are served in stable priority
\* order: entries of equal priority are served in their aggregation order.
StableOrderServed ==
    Limited =>
        LET d == Demand
        IN  \A hh \in HourIndex :
                Breached(d, hh) =>
                    LET pass == AllocationPass(StableSort(d[hh]), capacityPerHour,
                                               <<>>, <<>>)
                    IN  /\ hourlyRequests[hh] = pass.allocated
                        /\ UnmetOf(hh) # <<>>
                        /\ UnmetOf(hh)[1].ImpactedClients = pass.impactedClients

\* C9 Among entries of equal priority the alphabetically earlier customer is
\* served first, whatever the input order.
AlphabeticalTieBreak ==
    Limited =>
        \A hh \in HourIndex :
            UnmetOf(hh) # <<>> =>
                LET served == ServedOrder(hh)
                IN  \A a, b \in 1..Len(served) :
                        (a < b /\ served[a].Priority = served[b].Priority) =>
                            ~NameBefore(served[b].Name, served[a].Name)

\* C10 With capacityPerHour = 0 the allocation loop is never entered: every
\* bucket of the returned schedule is the aggregated demand, in emission
\* order, and UnmetDemands is empty.
UnlimitedLeavesDemand ==
    capacityPerHour = 0 =>
        /\ pc # "allocate"
        /\ UnmetDemands = <<>>
        /\ pc = "done" => \A hh \in HourIndex : hourlyRequests[hh] = Demand[hh]

UnlimitedLeavesDemandWitness ==
    /\ capacityPerHour = 0
    /\ pc = "done"
    /\ \E hh \in HourIndex :
          /\ Len(hourlyRequests[hh]) > 1
          /\ \A c \in Capacities : SumAgents(hourlyRequests[hh]) > c

(***************************************************************************)
(* Properties of the interval decomposition                                *)
(***************************************************************************)
\* the hour boundaries of the two days a window can touch
Boundaries == {MinutesPerHour * k : k \in 0..(2 * HoursPerDay - 1)}

\* the elapsed-hour steps [t, t + 1h) that overlap the window of cd
StepStarts(cd) ==
    {t \in Boundaries : t < NormalizedEnd(cd) /\ t + MinutesPerHour > cd.StartTime}

\* the clock hour that instant t reads in the zone loc
LocalClockHour(loc, t) ==
    ((t + (IF t < loc.at THEN loc.before ELSE loc.after)) % MinutesPerDay)
        \div MinutesPerHour

\* C11 Buckets: the schedule always has exactly the 24 buckets 0..23, and
\* every entry of a bucket hh belongs to a record one of whose elapsed-hour
\* steps starts at an instant that reads clock hour hh in the record's zone.
BucketsByLocalHour ==
    /\ DOMAIN hourlyRequests = HourIndex
    /\ \A hh \in HourIndex :
          \A n \in 1..Len(hourlyRequests[hh]) :
              \E k \in 1..(i - 1) :
                  /\ data[k].CustomerName = hourlyRequests[hh][n].Name
                  /\ \E t \in StepStarts(data[k]) :
                        LocalClockHour(data[k].Location, t) = hh

BucketsByLocalHourWitness ==
    /\ pc = "done"
    /\ Len(data) = 1
    /\ data[1].Location = NewYorkFallBack
    /\ data[1].StartTime = 240
    /\ Len(hourlyRequests[0]) = 1
    /\ Len(hourlyRequests[1]) = 2
    /\ Len(hourlyRequests[2]) = 1
    /\ \A hh \in 3..(HoursPerDay - 1) : hourlyRequests[hh] = <<>>

\* the minutes the step that starts at t shares with the window of cd
Overlap(cd, t) ==
    (IF NormalizedEnd(cd) < t + MinutesPerHour THEN NormalizedEnd(cd) ELSE t + MinutesPerHour)
    - (IF cd.StartTime > t THEN cd.StartTime ELSE t)

\* ceil((totalCalls / durationHours) * overlapHours * averageHandleSeconds / 3600)
ProportionalAgents(cd, t) ==
    Ceil(cd.NumberOfCalls * Overlap(cd, t) * cd.AverageCallDurationSeconds,
         (NormalizedEnd(cd) - cd.StartTime) * SecondsPerHour)

RECURSIVE ExpectedFrom(_, _, _)
\* the proportional agent counts of the steps of cd from boundary k on that
\* read clock hour hh, in the order of the steps
ExpectedFrom(cd, hh, k) ==
    IF k >= 2 * HoursPerDay THEN <<>>
    ELSE LET t == MinutesPerHour * k
         IN  (IF t \in StepStarts(cd) /\ LocalClockHour(cd.Location, t) = hh
              THEN <<ProportionalAgents(cd, t)>> ELSE <<>>)
             \o ExpectedFrom(cd, hh, k + 1)

\* the agent counts of the entries of bucket hh
AgentCounts(hh) ==
    [n \in 1..Len(hourlyRequests[hh]) |-> hourlyRequests[hh][n].AgentsNeeded]

\* the decomposition loop has just finished a call with the one record data[1]
Decomposed == pc = "decompose" /\ Len(data) = 1 /\ i = 2

\* C12 Proportional decomposition: after the decomposition of one record of
\* positive duration with utilization 1, every bucket holds exactly one
\* entry per overlapping elapsed-hour step of its clock hour, and the entry
\* needs ceil(calls / duration * overlap * handle time / 3600) agents.
ProportionalDecomposition ==
    (Decomposed /\ utilization = <<1, 1>> /\ NormalizedEnd(data[1]) > data[1].StartTime)
        => \A hh \in HourIndex : AgentCounts(hh) = ExpectedFrom(data[1], hh, 0)

\* the elapsed-hour steps between the start of cd and 24h after its end
OvernightSteps(cd) ==
    {t \in Boundaries :
        t < cd.EndTime + MinutesPerDay /\ t + MinutesPerHour > cd.StartTime}

\* C13 Overnight normalization: a record whose end is before its start is
\* decomposed as if it ended 24 elapsed hours later: every elapsed-hour step
\* from its start to that end has exactly one entry, in the bucket of the
\* step's local hour (22:00-02:00 fills 22, 23, 0 and 1 once each).
OvernightCoverage ==
    (Decomposed /\ data[1].EndTime < data[1].StartTime)
        => \A hh \in HourIndex :
              Len(hourlyRequests[hh]) =
                  Cardinality({t \in OvernightSteps(data[1]) :
                                  LocalClockHour(data[1].Location, t) = hh})

\* the names of the entries of bucket hh
EntryNames(hh) ==
    [n \in 1..Len(hourlyRequests[hh]) |-> hourlyRequests[hh][n].Name]

\* C14 Zero duration: a record whose start equals its end adds no entry to
\* any bucket and the call goes on: the record after it (B, 05:00-07:00 UTC,
\* 2 agents an hour before utilization) is decomposed as if it were alone.
ZeroDurationSkipped ==
    (pc = "decompose" /\ data[1].StartTime = data[1].EndTime /\ utilization[1] > 0)
        => /\ i = 2 => \A hh \in HourIndex : hourlyRequests[hh] = <<>>
           /\ i = 3 =>
                \A hh \in HourIndex :
                    /\ EntryNames(hh) = IF hh \in {5, 6} THEN <<"B">> ELSE <<>>
                    /\ AgentCounts(hh) =
                          IF hh \in {5, 6}
                          THEN <<Ceil(2 * utilization[2], utilization[1])>>
                          ELSE <<>>

ZeroDurationSkippedWitness ==
    /\ pc = "decompose"
    /\ i = 3
    /\ data[1].StartTime = data[1].EndTime
    /\ data[1].NumberOfCalls > 0
    /\ utilization = <<4, 5>>
    /\ AgentCounts(5) = <<3>>

\* ProportionalAgents divided by the utilization and rounded up
ExpectedAgents(cd, t) ==
    Ceil(ProportionalAgents(cd, t) * utilization[2], utilization[1])

\* the one record of the call is a New York record on the fall-back day whose
\* window holds both occurrences of the local hour 01:00 (05:00-07:00 UTC)
SpansRepeatedHour ==
    /\ Decomposed
    /\ utilization[1] > 0
    /\ data[1].Location = NewYorkFallBack
    /\ data[1].StartTime <= 300
    /\ data[1].StartTime <= data[1].EndTime
    /\ data[1].EndTime >= 420

\* C15 Fall-back: when the window spans the repeated local hour, bucket 1
\* holds two entries, one for each of the two elapsed-hour steps that read
\* 01:00, and its total is the sum of both, twice the count of a single hour.
FallBackDoubling ==
    SpansRepeatedHour =>
        /\ AgentCounts(1) = <<ExpectedAgents(data[1], 300), ExpectedAgents(data[1], 360)>>
        /\ SumAgents(hourlyRequests[1]) = 2 * ExpectedAgents(data[1], 300)
        /\ data[1].EndTime >= 480 =>
              SumAgents(hourlyRequests[1]) = 2 * SumAgents(hourlyRequests[2])

FallBackDoublingWitness ==
    /\ SpansRepeatedHour
    /\ data[1].NumberOfCalls = 22
    /\ data[1].AverageCallDurationSeconds = 3600
    /\ utilization = <<1, 1>>
    /\ AgentCounts(0) = <<6>>
    /\ AgentCounts(1) = <<6, 6>>
    /\ AgentCounts(2) = <<6>>

\* the one record of the call is a New York record on the spring-forward day
\* whose window holds the transition (07:00 UTC, 02:00 EST becomes 03:00 EDT)
SpansSkippedHour ==
    /\ Decomposed
    /\ utilization = <<1, 1>>
    /\ data[1].Location = NewYorkSpringForward
    /\ data[1].StartTime < 420
    /\ data[1].StartTime <= data[1].EndTime
    /\ data[1].EndTime > 420

\* C16 Spring-forward: a window across the transition leaves the bucket of
\* the skipped local hour 2 empty, and the entries of the hours around it
\* are counted with the rate calls / elapsed duration (01:00-04:00 is two
\* elapsed hours, not three).
SpringForwardSkip ==
    SpansSkippedHour =>
        /\ hourlyRequests[2] = <<>>
        /\ AgentCounts(1) = <<ProportionalAgents(data[1], 360)>>
        /\ AgentCounts(3) = <<ProportionalAgents(data[1], 420)>>
        /\ data[1].StartTime >= 360 => \A hh \in HourIndex \ {1, 3} : hourlyRequests[hh] = <<>>

SpringForwardSkipWitness ==
    /\ SpansSkippedHour
    /\ data[1].StartTime = 360
    /\ data[1].EndTime = 480
    /\ data[1].NumberOfCalls = 22
    /\ data[1].AverageCallDurationSeconds = 3600
    /\ AgentCounts(1) = <<11>>
    /\ AgentCounts(3) = <<11>>
    /\ hourlyRequests[2] = <<>>

\* the agent count before the utilization adjustment of the step of cd at t
RawOf(cd, t) == RawAgents(cd, NormalizedEnd(cd) - cd.StartTime, Overlap(cd, t))

\* entry n of bucket hh is the entry of step t of data[1] and its count is
\* ceil(raw / utilization), not below raw, and raw under utilization 1
AdjustedFrom(hh, n, t) ==
    LET raw == RawOf(data[1], t)
        needed == hourlyRequests[hh][n].AgentsNeeded
    IN  /\ LocalClockHour(data[1].Location, t) = hh
        /\ needed = Ceil(raw * utilization[2], utilization[1])
        /\ needed >= raw
        /\ utilization = <<1, 1>> => needed = raw

\* C17 Utilization: for a utilization u in (0, 1] every entry needs
\* ceil(rawAgents / u) agents, which is at least rawAgents and equal to it
\* for u = 1 (10 agents at 0.8 become 13).
UtilizationAdjustment ==
    (Decomposed /\ utilization[1] > 0 /\ utilization[1] <= utilization[2])
        => \A hh \in HourIndex :
              \A n \in 1..Len(hourlyRequests[hh]) :
                  \E t \in StepStarts(data[1]) : AdjustedFrom(hh, n, t)

\* C18 Utilization range: a run with a utilization outside (0, 1] is
\* rejected before any agent count is computed: it never gets past the
\* validation of main into GenerateSchedule.
UtilizationRejected ==
    (utilization[1] <= 0 \/ utilization[1] > utilization[2]) => pc \in {"main", "exit"}

\* C19 Non-negative counts: with a utilization in (0, 1] no bucket ever
\* holds an entry with a negative AgentsNeeded, and every entry of a record
\* with zero or negative total calls needs 0 agents.
NonNegativeAgents ==
    (Decomposed /\ utilization[1] > 0 /\ utilization[1] <= utilization[2])
        => \A hh \in HourIndex :
              \A n \in 1..Len(hourlyRequests[hh]) :
                  /\ hourlyRequests[hh][n].AgentsNeeded >= 0
                  /\ data[1].NumberOfCalls <= 0 => hourlyRequests[hh][n].AgentsNeeded = 0

NamedZones ==
    ("PT" :> LosAngeles) @@ ("ET" :> NewYorkFallBack) @@ ("CT" :> Chicago)
    @@ ("MT" :> Denver) @@ ("UTC" :> UTC) @@ ("Asia/Tokyo" :> Tokyo)

\* record is a '#' row whose third column is StartTime<code> with a code
\* or name that stands for a zone
NamesZone(record) ==
    /\ record[1] \in HashFields
    /\ Len(record) >= 3
    /\ record[3] \in DOMAIN TrimStartTime
    /\ TrimStartTime[record[3]] \in DOMAIN NamedZones

RECURSIVE ZoneAt(_)
\* the zone named by the nearest header among the records 1..k,
\* America/Los_Angeles without one
ZoneAt(k) ==
    IF k = 0 THEN LosAngeles
    ELSE IF NamesZone(input[k]) THEN NamedZones[TrimStartTime[input[k][3]]]
    ELSE ZoneAt(k - 1)

RECURSIVE ExpectedRows(_)
\* name and zone of the data rows among the records 1..k, in input order
ExpectedRows(k) ==
    IF k = 0 THEN <<>>
    ELSE ExpectedRows(k - 1)
         \o (IF input[k][1] \in HashFields THEN <<>>
             ELSE <<[name |-> input[k][1], zone |-> ZoneAt(k)]>>)

\* the number of records read so far
RecordsRead == IF lineNum > Len(input) THEN Len(input) ELSE lineNum

\* name and zone of the CallData in data
ParsedRows ==
    [n \in 1..Len(data) |-> [name |-> data[n].CustomerName, zone |-> data[n].Location]]

\* C21 Time zone state: as long as no record was rejected, data holds one
\* CallData per data row read so far, in input order and none for a '#' row,
\* and each has the zone named by the nearest StartTime<code> header before
\* its row, America/Los_Angeles when there is none.
ZoneOfNearestHeader ==
    err = <<>> => ParsedRows = ExpectedRows(RecordsRead)

\* column k (2..6) of a data record of six fields cannot be converted
Unparsable(record, k) ==
    IF k \in {3, 4} THEN record[k] \notin DOMAIN ClockTimes
    ELSE record[k] \notin DOMAIN Atoi

\* a data record that is malformed
Malformed(record) ==
    /\ record[1] \notin HashFields
    /\ (Len(record) # 6 \/ \E k \in 2..6 : Unparsable(record, k))

\* the sentinels by column
ColumnSentinels ==
    <<ErrInvalidFieldCount, ErrInvalidDuration, ErrInvalidStartTime,
      ErrInvalidEndTime, ErrInvalidNumberOfCalls, ErrInvalidPriority>>

\* the sentinel of the first offending column of a malformed record
FirstOffence(record) ==
    IF Len(record) # 6 THEN ColumnSentinels[1]
    ELSE ColumnSentinels[CHOOSE k \in 2..6 :
                            /\ Unparsable(record, k)
                            /\ \A j \in 2..(k - 1) : ~Unparsable(record, j)]

\* the indices of the malformed data records of the input
MalformedIndices == {k \in 1..Len(input) : Malformed(input[k])}

\* C22 All or nothing: when the input has a malformed data row, Parse
\* returns no record and an error that wraps the sentinel of the first
\* offending column (field count, duration, start time, end time, call
\* count, priority) of the first malformed row; without one it returns nil.
AllOrNothing ==
    pc = "returned" =>
        IF MalformedIndices = {}
        THEN err = <<>>
        ELSE LET first == CHOOSE k \in MalformedIndices :
                              \A j \in MalformedIndices : k <= j
             IN  /\ data = <<>>
                 /\ Len(err) = 1
                 /\ err[1].Err = FirstOffence(input[first])
                 /\ err[1].Record = input[first]

AllOrNothingWitness ==
    /\ pc = "returned"
    /\ Len(input) = 3
    /\ input[1] = DataRow("A", {})
    /\ input[2] = DataRow("A", 2..5)
    /\ input[3] = DataRow("A", {1})
    /\ data = <<>>
    /\ err # <<>>
    /\ err[1].Err = ErrInvalidStartTime
    /\ err[1].Line = 2

\* C23 Validated records: every CallData that Parse returns has a positive
\* average handle time, a non-negative call count and a positive priority.
ReturnedRecordsValidated ==
    (pc = "returned" /\ err = <<>>) =>
        \A n \in 1..Len(data) :
            /\ data[n].AverageCallDurationSeconds > 0
            /\ data[n].NumberOfCalls >= 0
            /\ data[n].Priority > 0

\* record is a '#' row of at least four fields whose third column is
\* StartTime<code> with a code that stands for no zone
Unresolvable(record) ==
    /\ record[1] \in HashFields
    /\ Len(record) >= 4
    /\ record[3] \in DOMAIN TrimStartTime
    /\ TrimStartTime[record[3]] \notin DOMAIN NamedZones

\* C29 Unresolvable header: reading a '#' row whose StartTime suffix stands
\* for no zone leaves the current zone of the parser as it was.
UnresolvableHeaderKeepsZone ==
    [][(pc = "parse" /\ lineNum < Len(input) /\ Unresolvable(input[lineNum + 1]))
         => currentLoc' = currentLoc]_vars

(***************************************************************************)
(* Properties of the constrained allocation                                *)
(***************************************************************************)
RECURSIVE SumUnmetAgents(_)
\* the sum of UnmetAgents over a list of ImpactedClient
SumUnmetAgents(clients) ==
    IF clients = <<>> THEN 0
    ELSE Head(clients).UnmetAgents + SumUnmetAgents(Tail(clients))

\* C24 Allocation accounting: for every UnmetDemand of a returned schedule,
\* the AgentsNeeded of the hour's allocated list sum to its AllocatedAgents,
\* which is the capacity, and the UnmetAgents of its ImpactedClients sum to
\* its UnmetAgents.
AllocationAccounting ==
    pc = "done" =>
        \A k \in 1..Len(UnmetDemands) :
            LET u == UnmetDemands[k]
            IN  /\ SumAgents(hourlyRequests[u.Hour]) = u.AllocatedAgents
                /\ u.AllocatedAgents = capacityPerHour
                /\ SumUnmetAgents(u.ImpactedClients) = u.UnmetAgents

AllocationAccountingWitness ==
    /\ pc = "done"
    /\ \E k \in 1..Len(UnmetDemands) :
          LET u == UnmetDemands[k]
          IN  /\ Len(u.ImpactedClients) >= 2
              /\ u.ImpactedClients[1].AllocatedAgents > 0
              /\ u.ImpactedClients[2].UnmetAgents > 0
              /\ Len(hourlyRequests[u.Hour]) >= 2

\* name, request and priority of a CustomerRequirement
Asked(req) ==
    [Name |-> req.Name, AgentsNeeded |-> req.AgentsNeeded, Priority |-> req.Priority]

\* name, request and priority of an ImpactedClient
AskedByClient(c) ==
    [Name |-> c.Name, AgentsNeeded |-> c.RequestedAgents, Priority |-> c.Priority]

\* the requests behind an allocated list and the ImpactedClients of its hour,
\* in the order they were served: the allocated entries, the last of them
\* with the request of the first ImpactedClient when that one got agents,
\* then the ImpactedClients that got nothing
ServedRequests(allocated, clients) ==
    LET partial == clients[1].AllocatedAgents > 0
        full == IF partial THEN SubSeq(allocated, 1, Len(allocated) - 1)
                ELSE allocated
    IN  [k \in 1..Len(full) |-> Asked(full[k])]
        \o [k \in 1..Len(clients) |-> AskedByClient(clients[k])]

\* the sequences a and b hold the same elements the same number of times
SameBag(a, b) ==
    /\ Len(a) = Len(b)
    /\ \A k \in 1..Len(a) :
          Cardinality({j \in 1..Len(a) : a[j] = a[k]})
            = Cardinality({j \in 1..Len(b) : b[j] = a[k]})

\* C25 Prefix fill: in an hour with an UnmetDemand, only the first
\* ImpactedClient can have AllocatedAgents > 0; when it has, it got less
\* than it requested and is the last entry of the allocated list; the
\* entries allocated in full, then the partial one, then the ImpactedClients
\* that got nothing are the hour's demand in ascending order of Priority.
PrefixFill ==
    Limited =>
        LET d == Demand
        IN  \A n \in 1..Len(UnmetDemands) :
                LET u == UnmetDemands[n]
                    clients == u.ImpactedClients
                    allocated == hourlyRequests[u.Hour]
                    served == ServedRequests(allocated, clients)
                IN  /\ Len(clients) >= 1
                    /\ \A j \in 2..Len(clients) : clients[j].AllocatedAgents = 0
                    /\ clients[1].AllocatedAgents >= 0
                    /\ clients[1].AllocatedAgents > 0 =>
                          /\ clients[1].AllocatedAgents < clients[1].RequestedAgents
                          /\ Len(allocated) >= 1
                          /\ Asked(allocated[Len(allocated)]) =
                                [AskedByClient(clients[1]) EXCEPT
                                    !.AgentsNeeded = clients[1].AllocatedAgents]
                    /\ SameBag(served, [k \in 1..Len(d[u.Hour]) |-> Asked(d[u.Hour][k])])
                    /\ \A j \in 1..(Len(served) - 1) :
                          served[j].Priority <= served[j + 1].Priority

PrefixFillWitness ==
    /\ Limited
    /\ \E n \in 1..Len(UnmetDemands) :
          LET u == UnmetDemands[n]
          IN  /\ Len(hourlyRequests[u.Hour]) >= 2
              /\ Len(u.ImpactedClients) >= 2
              /\ u.ImpactedClients[1].AllocatedAgents > 0
              /\ u.ImpactedClients[2].AllocatedAgents = 0
              /\ u.ImpactedClients[1].Priority < u.ImpactedClients[2].Priority
              /\ Demand[u.Hour][1].Priority = 2

RECURSIVE AgentsOf(_, _)
\* the agents that an allocated list gives to the customer of a name
AgentsOf(name, allocated) ==
    IF allocated = <<>> THEN 0
    ELSE (IF Head(allocated).Name = name THEN Head(allocated).AgentsNeeded ELSE 0)
         + AgentsOf(name, Tail(allocated))

\* no two requests of the sequence have the same Priority
DistinctPriorities(requests) ==
    \A a, b \in 1..Len(requests) : a # b => requests[a].Priority # requests[b].Priority

\* C26 Allocator equivalence: on requests of pairwise distinct priorities
\* the two-pass and the single-pass allocateWithConstraints give every
\* customer the same number of agents and return the same UnmetDemand.
AllocatorsAgree ==
    (pc = "allocated" /\ DistinctPriorities(hourlyRequests[0])) =>
        /\ \A name \in RequestNames :
              AgentsOf(name, compared.singlePass.allocated)
                = AgentsOf(name, compared.twoPass.allocated)
        /\ compared.singlePass.unmet = compared.twoPass.unmet

(***************************************************************************)
(* Properties of the walked window                                         *)
(***************************************************************************)
\* C27 Window coverage: for a record of positive duration, the overlaps of
\* the steps walked from the rounded-down start boundary to the rounded-up
\* end boundary sum to the elapsed duration from start to end.
WindowCoverage ==
    (Decomposed /\ NormalizedEnd(data[1]) > data[1].StartTime) =>
        WalkedMinutes(data[1].StartTime, NormalizedEnd(data[1]),
                      HourBoundary(data[1].Location, data[1].StartTime),
                      EndHourBoundary(data[1].Location, NormalizedEnd(data[1])))
          = NormalizedEnd(data[1]) - data[1].StartTime

(***************************************************************************)
(* Properties of the formatted schedule                                    *)
(***************************************************************************)
RECURSIVE SumOver(_, _)
\* the sum of the values of the function f over the set S of arguments
SumOver(f, S) ==
    IF S = {} THEN 0
    ELSE LET x == CHOOSE y \in S : TRUE
         IN  f[x] + SumOver(f, S \ {x})

\* the entries of an hour for a customer at a location
EntriesOf(hh, locName, name) ==
    SelectSeq(hourlyRequests[hh], LAMBDA r : r.Location = locName /\ r.Name = name)

\* C28 Formatted totals: in the ScheduleData of a returned schedule, the
\* total of every hour is the sum of AgentsNeeded over the hour's entries,
\* every location total is the sum of the customer figures listed under
\* the location, and the figure of a customer is the sum over all of the
\* customer's entries of the hour at the location.
FormattedTotalsConsistent ==
    pc = "formatted" =>
        \A hh \in HourIndex :
            LET hourly == formatted[hh]
            IN  /\ hourly.Total = SumAgents(hourlyRequests[hh])
                /\ \A locName \in DOMAIN hourly.LocationData :
                      LET group == hourly.LocationData[locName]
                      IN  /\ group.Total = SumOver(group.Customers, DOMAIN group.Customers)
                          /\ \A name \in DOMAIN group.Customers :
                                group.Customers[name] = SumAgents(EntriesOf(hh, locName, name))

(***************************************************************************)
(* Properties of the gauges                                                *)
(***************************************************************************)
\* C30 Gauges: after a run of the instrumented GenerateSchedule,
\* agents_demanded_total is agents_allocated_total plus agents_unmet_total
\* and is the demand of all 24 hours before any capacity limit.
GaugesConsistent ==
    pc = "reported" =>
        /\ gauges.demanded = gauges.allocated + gauges.unmet
        /\ gauges.demanded = SumRequirements(Demand, 0)

====
